---- MODULE Spec2Model ----
(***************************************************************************)
(* Model of scripts/extract_video_frames.py: discovery of the video files *)
(* of a directory, the per-video idempotency check, the creation of the    *)
(* per-video directories, the invocation of ffmpeg and the run summary.    *)
(*                                                                         *)
(* File names are sequences of code points, so that glob matching, the     *)
(* stem of a path and the sort order are computed as pathlib computes      *)
(* them on a POSIX (case-sensitive) file system.                           *)
(***************************************************************************)
EXTENDS Integers, Sequences, FiniteSets, TLC

(* ---------------------------------------------------------------------- *)
(* Bounds                                                                  *)
(* ---------------------------------------------------------------------- *)

\* largest number of frames one ffmpeg invocation writes
MaxFrames == 2

\* number of successive invocations of the script on the same directory
MaxRuns == 2

(* ---------------------------------------------------------------------- *)
(* File names                                                              *)
(* ---------------------------------------------------------------------- *)

\* "a.mp4"
n_a_mp4 == <<97, 46, 109, 112, 52>>
\* "a.MP4"
n_a_MP4 == <<97, 46, 77, 80, 52>>
\* "b.mp4"
n_b_mp4 == <<98, 46, 109, 112, 52>>
\* "b.Mp4"
n_b_Mp4 == <<98, 46, 77, 112, 52>>
\* "n.txt"
n_n_txt == <<110, 46, 116, 120, 116>>
\* "a"
n_a == <<97>>
\* "b"
n_b == <<98>>

\* names a regular file of the videos directory can have when a run starts
InputNames == {n_a_mp4, n_a_MP4, n_b_mp4, n_b_Mp4, n_n_txt}

\* names of the per-video output directories
StemNames == {n_a, n_b}

\* every entry name of the videos directory
EntryNames == InputNames \cup StemNames

\* the entries of an all_frames directory: token 0 is ".DS_Store", token k
\* in 1..9 is "frame_000k.jpg" (what ffmpeg writes for frame_%04d.jpg)
FrameFileName(k) ==
    IF k = 0
    THEN <<46, 68, 83, 95, 83, 116, 111, 114, 101>>
    ELSE <<102, 114, 97, 109, 101, 95, 48, 48, 48, 48 + k, 46, 106, 112, 103>>

\* tokens an all_frames directory can hold
FrameTokens == 0 .. MaxFrames

(* ---------------------------------------------------------------------- *)
(* pathlib / fnmatch helpers                                               *)
(* ---------------------------------------------------------------------- *)

\* ".mp4"
pat_mp4 == <<46, 109, 112, 52>>
\* ".MP4"
pat_MP4 == <<46, 77, 80, 52>>
\* "frame_"
pat_frame == <<102, 114, 97, 109, 101, 95>>
\* ".jpg"
pat_jpg == <<46, 106, 112, 103>>

\* lower-case form of an ASCII code point
Lower(c) == IF c >= 65 /\ c <= 90 THEN c + 32 ELSE c

LowerSeq(s) == [k \in 1 .. Len(s) |-> Lower(s[k])]

HasPrefix(s, p) == Len(s) >= Len(p) /\ SubSeq(s, 1, Len(p)) = p

HasSuffix(s, p) == Len(s) >= Len(p) /\ SubSeq(s, Len(s) - Len(p) + 1, Len(s)) = p

\* fnmatch of a pattern  <prefix>*<suffix>  (case-sensitive, as on POSIX)
GlobMatch(s, prefix, suffix) ==
    /\ Len(s) >= Len(prefix) + Len(suffix)
    /\ HasPrefix(s, prefix)
    /\ HasSuffix(s, suffix)

\* 1-based index of the last "." of a name, 0 if there is none
LastDot(s) ==
    IF \E k \in 1 .. Len(s) : s[k] = 46
    THEN CHOOSE k \in 1 .. Len(s) :
            s[k] = 46 /\ \A j \in (k + 1) .. Len(s) : s[j] # 46
    ELSE 0

\* PurePath.suffix: the last dotted component, "" for a leading or trailing dot
Suffix(s) ==
    IF LastDot(s) > 1 /\ LastDot(s) < Len(s)
    THEN SubSeq(s, LastDot(s), Len(s))
    ELSE <<>>

\* PurePath.stem: the name without its suffix
Stem(s) == SubSeq(s, 1, Len(s) - Len(Suffix(s)))

\* s < t in the order of Python strings (code point by code point)
RECURSIVE LexLess(_, _)
LexLess(s, t) ==
    IF t = <<>> THEN FALSE
    ELSE IF s = <<>> THEN TRUE
    ELSE IF s[1] # t[1] THEN s[1] < t[1]
    ELSE LexLess(Tail(s), Tail(t))

\* the lists a directory scan can yield for a set of names: the order is the
\* file system's (os.scandir), so every order is possible
RECURSIVE Listings(_)
Listings(S) ==
    IF S = {} THEN {<<>>}
    ELSE UNION {{<<x>> \o l : l \in Listings(S \ {x})} : x \in S}

\* a name put at its place in an ascending list
RECURSIVE Insert(_, _)
Insert(x, q) ==
    IF q = <<>> THEN <<x>>
    ELSE IF LexLess(q[1], x) THEN <<q[1]>> \o Insert(x, Tail(q))
    ELSE <<x>> \o q

\* sorted(): the names of a list in ascending order, duplicates kept
RECURSIVE Sorted(_)
Sorted(q) ==
    IF q = <<>> THEN <<>> ELSE Insert(q[1], Sorted(Tail(q)))

(* ---------------------------------------------------------------------- *)
(* State                                                                   *)
(* ---------------------------------------------------------------------- *)

VARIABLES
    fs,               \* the videos directory: its entries and the output trees
    dir_exists,       \* the videos directory exists
    has_override,     \* --videos-dir was given
    desktop_exists,   \* ~/Desktop exists
    ffmpeg_version,   \* how "ffmpeg -version" ends on this machine
    force,            \* --force was given to the current run
    pc,               \* position of the current run
    video_files,      \* process_videos: the discovered videos, in order
    i,                \* process_videos: 1-based index of the video being handled
    processed_count,
    skipped_count,
    failed_count,
    vstate,           \* per-video state of the current run
    check,            \* result of the last is_already_processed call
    result,           \* result of the last extract_frames call
    tool,             \* how the last ffmpeg invocation ended
    summary,          \* the summary printed by the current run, if any
    exit_status,      \* exit status of the current run, -1 while it runs
    run,              \* number of the current run
    prev_force,       \* the force flag of the run before
    prev_failed,      \* SpecHistory: the videos the run before counted as failed
    report,           \* what process_videos reported instead of processing
    start_fs,         \* the file system when the current run started
    discovery_calls,  \* calls of get_video_files in the current run
    attempted         \* indexes of the videos whose extraction was invoked

vars == <<fs, dir_exists, has_override, desktop_exists, ffmpeg_version, force, pc,
          video_files, i, processed_count, skipped_count, failed_count,
          vstate, check, result, tool, summary, exit_status, run,
          prev_force, prev_failed, report, start_fs, discovery_calls,
          attempted>>

(* ---------------------------------------------------------------------- *)
(* The file system                                                         *)
(* ---------------------------------------------------------------------- *)

\* fs.kind[n]     : what the entry n of the videos directory is
\* fs.af_exists[s]: <videos_dir>/s/all_frames exists
\* fs.af_files[s] : the files of <videos_dir>/s/all_frames
\* fs.release[s]  : <videos_dir>/s/release_frames: absent, empty or populated
FsStates ==
    [kind      : [EntryNames -> {"none", "file", "dir"}],
     af_exists : [StemNames -> BOOLEAN],
     af_files  : [StemNames -> SUBSET FrameTokens],
     release   : [StemNames -> {"absent", "empty", "nonempty"}]]

\* the file system is a tree: subdirectories only exist inside directories
WellFormed(f) ==
    /\ \A n \in InputNames : f.kind[n] \in {"none", "file"}
    /\ \A s \in StemNames :
          /\ f.af_exists[s] => f.kind[s] = "dir"
          /\ f.release[s] # "absent" => f.kind[s] = "dir"
          /\ ~f.af_exists[s] => f.af_files[s] = {}

\* Path.exists() of <videos_dir>/s/all_frames
AllFramesExists(f, s) ==
    s \in StemNames /\ f.kind[s] = "dir" /\ f.af_exists[s]

\* variant: every file of the directory is taken for a frame
FrameFilesAnyName(f, s) ==
    IF AllFramesExists(f, s) THEN f.af_files[s] ELSE {}

\* all_frames_dir.glob("frame_*.jpg")
FrameFiles(f, s) ==
    IF AllFramesExists(f, s)
    THEN {k \in f.af_files[s] : GlobMatch(FrameFileName(k), pat_frame, pat_jpg)}
    ELSE {}

\* Path(videos_dir).glob("*" + suffix): the entries of any kind whose name
\* matches, in one of the orders the scan can yield them
Glob(f, suffix) ==
    Listings({n \in EntryNames : f.kind[n] # "none" /\ GlobMatch(n, <<>>, suffix)})

\* mkdir(parents=True, exist_ok=True) of <videos_dir>/s/all_frames and of
\* <videos_dir>/s/release_frames succeeds unless s is a regular file
MkdirOk(f, s) == s \in StemNames /\ f.kind[s] # "file"

\* variant: only the all_frames directory is created
Mkdirs_all_frames_only(f, s) ==
    [f EXCEPT !.kind[s] = "dir", !.af_exists[s] = TRUE]

Mkdirs(f, s) ==
    [f EXCEPT !.kind[s] = "dir",
              !.af_exists[s] = TRUE,
              !.release[s] = IF @ = "absent" THEN "empty" ELSE @]

\* ffmpeg -i <video> <all_frames>/frame_%04d.jpg that wrote k frames before it
\* ended: frame_0001.jpg .. frame_000k.jpg are created or overwritten
Ffmpeg(f, s, k) == [f EXCEPT !.af_files[s] = @ \cup (1 .. k)]

(* ---------------------------------------------------------------------- *)
(* Functions of the script                                                 *)
(* ---------------------------------------------------------------------- *)

\* how "ffmpeg -version" can end:
\*   "ok"          exit status 0 and at least three words of output
\*   "unavailable" ffmpeg is not on the PATH (FileNotFoundError) or exits with
\*                 a non-zero status (CalledProcessError)
\*   "unusable"    exit status 0 and fewer than three words of output
\*                 (IndexError at line 38), or ffmpeg cannot be executed
\*                 (PermissionError)
\*   "hangs"       the command never ends; the call has no timeout
VersionEndings == {"ok", "unavailable", "unusable", "hangs"}

\* variant: the availability check always passes
check_ffmpeg_installed_always(ending) == "True"

\* what check_ffmpeg_installed does: it returns True or False, raises an
\* exception that lines 40 and 241 do not catch, or does not return
check_ffmpeg_installed(ending) ==
    IF ending = "ok" THEN "True"
    ELSE IF ending = "unavailable" THEN "False"
    ELSE IF ending = "unusable" THEN "raises"
    ELSE "blocks"

\* get_desktop_path raises FileNotFoundError when ~/Desktop is missing
get_desktop_path_ok(desktop) == desktop

\* the lists get_video_files can return, one for every order the two scans
\* can yield (sorted() makes them the same list)
get_video_files(f) ==
    {Sorted(lower \o upper) : lower \in Glob(f, pat_mp4), upper \in Glob(f, pat_MP4)}

\* variant: an existing all_frames directory counts as processed
is_already_processed_dir_only(f, video) ==
    LET video_name  == Stem(video)
        frame_files == FrameFiles(f, video_name)
    IN  IF AllFramesExists(f, video_name)
        THEN [already_processed |-> TRUE, existing_frames |-> Cardinality(frame_files)]
        ELSE [already_processed |-> FALSE, existing_frames |-> 0]

is_already_processed(f, video) ==
    LET video_name  == Stem(video)
        frame_files == FrameFiles(f, video_name)
    IN  IF AllFramesExists(f, video_name) /\ frame_files # {}
        THEN [already_processed |-> TRUE, existing_frames |-> Cardinality(frame_files)]
        ELSE [already_processed |-> FALSE, existing_frames |-> 0]

\* how the subprocess.run of lines 106-112 can end:
\*   "ok"      ffmpeg exits with status 0
\*   "nonzero" ffmpeg exits with another status (CalledProcessError)
\*   "timeout" ffmpeg is stopped after 300 seconds (TimeoutExpired)
\*   "raises"  any other exception: ffmpeg cannot be started any more
\*             (FileNotFoundError, PermissionError) or its output is not
\*             UTF-8 (UnicodeDecodeError of text=True)
Outcomes == {"ok", "nonzero", "timeout", "raises"}

\* what leaves extract_frames when it does not return: an exception that
\* lines 120-125 do not catch
Uncaught == [exception |-> "uncaught"]

\* extract_frames ended with an exception instead of a value
Raises(r) == "exception" \in DOMAIN r

\* variant: every file of the output directory is counted as a frame
extract_frames_counts_any_file(f, video, outcome) ==
    IF outcome = "ok"
    THEN [success |-> TRUE,
          frame_count |-> Cardinality(FrameFilesAnyName(f, Stem(video))),
          error_msg |-> "none"]
    ELSE IF outcome = "timeout"
    THEN [success |-> FALSE, frame_count |-> 0, error_msg |-> "FFmpeg timed out"]
    ELSE IF outcome = "nonzero"
    THEN [success |-> FALSE, frame_count |-> 0, error_msg |-> "FFmpeg error"]
    ELSE Uncaught

\* variant: a timeout is reported like any other ffmpeg error
extract_frames_one_handler(f, video, outcome) ==
    IF outcome = "ok"
    THEN [success |-> TRUE,
          frame_count |-> Cardinality(FrameFiles(f, Stem(video))),
          error_msg |-> "none"]
    ELSE IF outcome \in {"timeout", "nonzero"}
    THEN [success |-> FALSE, frame_count |-> 0, error_msg |-> "FFmpeg error"]
    ELSE Uncaught

\* what extract_frames does once ffmpeg ended with the given outcome and
\* left the file system f: the value it returns, or the exception it lets
\* through
extract_frames(f, video, outcome) ==
    IF outcome = "ok"
    THEN [success |-> TRUE,
          frame_count |-> Cardinality(FrameFiles(f, Stem(video))),
          error_msg |-> "none"]
    ELSE IF outcome = "timeout"
    THEN [success |-> FALSE, frame_count |-> 0, error_msg |-> "FFmpeg timed out"]
    ELSE IF outcome = "nonzero"
    THEN [success |-> FALSE, frame_count |-> 0, error_msg |-> "FFmpeg error"]
    ELSE Uncaught

(* ---------------------------------------------------------------------- *)
(* Initial states                                                          *)
(* ---------------------------------------------------------------------- *)

\* what an all_frames directory can hold when the first run starts: nothing,
\* a file that is no frame, or the frames of an earlier extraction
PriorFileSets == {{}, {0}} \cup {1 .. k : k \in 1 .. MaxFrames}

\* what <videos_dir>/s can be when the first run starts
PriorTrees ==
    {[kind |-> "none", af_exists |-> FALSE, af_files |-> {}, release |-> "absent"],
     [kind |-> "file", af_exists |-> FALSE, af_files |-> {}, release |-> "absent"]}
    \cup
    [kind : {"dir"}, af_exists : {TRUE}, af_files : PriorFileSets,
     release : {"empty"}]
    \cup
    {[kind |-> "dir", af_exists |-> TRUE, af_files |-> 1 .. MaxFrames,
      release |-> "nonempty"]}

\* the regular files of the videos directory when the first run starts: any
\* of the names the discovery matches, alone or next to the two names it
\* does not match
PriorContents ==
    {matched \cup other :
        matched \in SUBSET {n_a_mp4, n_a_MP4, n_b_mp4},
        other \in {{}, {n_b_Mp4, n_n_txt}}}

\* the file system of a videos directory holding the regular files present
\* and the output trees tree[s]
MakeFs(present, tree) ==
    [kind      |-> [n \in EntryNames |->
                      IF n \in StemNames THEN tree[n].kind
                      ELSE IF n \in present THEN "file" ELSE "none"],
     af_exists |-> [s \in StemNames |-> tree[s].af_exists],
     af_files  |-> [s \in StemNames |-> tree[s].af_files],
     release   |-> [s \in StemNames |-> tree[s].release]]

EmptyFs == MakeFs({}, [s \in StemNames |-> CHOOSE t \in PriorTrees : t.kind = "none"])

NoCheck == [already_processed |-> FALSE, existing_frames |-> 0]

NoResult == [success |-> FALSE, frame_count |-> 0, error_msg |-> "none"]

NoSummary == [printed |-> FALSE, processed |-> 0, skipped |-> 0, failed |-> 0, total |-> 0]

Init ==
    /\ dir_exists \in BOOLEAN
    /\ \E present \in PriorContents, tree \in [StemNames -> PriorTrees] :
          fs = IF dir_exists THEN MakeFs(present, tree) ELSE EmptyFs
    /\ has_override \in BOOLEAN
    /\ desktop_exists \in BOOLEAN
    /\ ffmpeg_version \in VersionEndings
    /\ force \in BOOLEAN
    /\ run = 1
    /\ prev_force = FALSE
    /\ prev_failed = {}
    /\ report = "none"
    /\ start_fs = fs
    /\ pc = "main"
    /\ video_files = <<>>
    /\ i = 0
    /\ processed_count = 0
    /\ skipped_count = 0
    /\ failed_count = 0
    /\ vstate = <<>>
    /\ check = NoCheck
    /\ result = NoResult
    /\ tool = "none"
    /\ summary = NoSummary
    /\ exit_status = -1
    /\ discovery_calls = 0
    /\ attempted = {}

(* ---------------------------------------------------------------------- *)
(* main                                                                    *)
(* ---------------------------------------------------------------------- *)

\* the process ends with the given status
Exit(status) ==
    /\ pc' = "exited"
    /\ exit_status' = status

\* main, lines 225-238: the videos directory is the override or
\* ~/Desktop/baseball_vids; without a Desktop the run ends with status 1
MainResolveDir ==
    /\ pc = "main"
    /\ IF has_override \/ get_desktop_path_ok(desktop_exists)
       THEN pc' = "check_ffmpeg" /\ UNCHANGED exit_status
       ELSE Exit(1)
    /\ UNCHANGED <<fs, dir_exists, has_override, desktop_exists, ffmpeg_version, force,
                   video_files, i, processed_count, skipped_count, failed_count,
                   vstate, check, result, tool, summary, run, prev_force, prev_failed, report,
                   start_fs, discovery_calls, attempted>>

\* main, lines 240-242: without ffmpeg the run ends with status 1
\* (sys.exit); an exception of the check ends it with a traceback and status
\* 1 as well; a check that does not return leaves the run where it is
MainCheckFfmpeg ==
    /\ pc = "check_ffmpeg"
    /\ check_ffmpeg_installed(ffmpeg_version) # "blocks"
    /\ IF check_ffmpeg_installed(ffmpeg_version) = "True"
       THEN pc' = "process_videos" /\ UNCHANGED exit_status
       ELSE Exit(1)
    /\ UNCHANGED <<fs, dir_exists, has_override, desktop_exists, ffmpeg_version, force,
                   video_files, i, processed_count, skipped_count, failed_count,
                   vstate, check, result, tool, summary, run, prev_force, prev_failed, report,
                   start_fs, discovery_calls, attempted>>

(* ---------------------------------------------------------------------- *)
(* process_videos                                                          *)
(* ---------------------------------------------------------------------- *)

\* variant: a missing directory or a directory without videos is an error
\* that ends the process with status 1
ProcessVideosStartFails ==
    /\ pc = "process_videos"
    /\ IF ~dir_exists
       THEN /\ report' = "Videos directory not found"
            /\ Exit(1)
            /\ UNCHANGED <<video_files, i, vstate, discovery_calls>>
       ELSE /\ video_files' \in get_video_files(fs)
            /\ discovery_calls' = discovery_calls + 1
            /\ IF video_files' = <<>>
               THEN /\ report' = "No mp4 video files found"
                    /\ Exit(1)
                    /\ UNCHANGED <<i, vstate>>
               ELSE /\ pc' = "loop"
                    /\ i' = 1
                    /\ vstate' = [k \in 1 .. Len(video_files') |-> "Discovered"]
                    /\ UNCHANGED <<exit_status, report>>
    /\ UNCHANGED <<fs, dir_exists, has_override, desktop_exists, ffmpeg_version, force,
                   processed_count, skipped_count, failed_count, check, result,
                   tool, summary, run, prev_force, prev_failed, start_fs,
                   attempted>>

\* lines 137-157: a missing directory or a directory without videos ends the
\* run (main returns, status 0); otherwise the loop starts
ProcessVideosStart ==
    /\ pc = "process_videos"
    /\ IF ~dir_exists
       THEN /\ report' = "Videos directory not found"
            /\ Exit(0)
            /\ UNCHANGED <<video_files, i, vstate, discovery_calls>>
       ELSE /\ video_files' \in get_video_files(fs)
            /\ discovery_calls' = discovery_calls + 1
            /\ IF video_files' = <<>>
               THEN /\ report' = "No mp4 video files found"
                    /\ Exit(0)
                    /\ UNCHANGED <<i, vstate>>
               ELSE /\ pc' = "loop"
                    /\ i' = 1
                    /\ vstate' = [k \in 1 .. Len(video_files') |-> "Discovered"]
                    /\ UNCHANGED <<exit_status, report>>
    /\ UNCHANGED <<fs, dir_exists, has_override, desktop_exists, ffmpeg_version, force,
                   processed_count, skipped_count, failed_count, check, result,
                   tool, summary, run, prev_force, prev_failed, start_fs,
                   attempted>>

\* variant: the skip counts the video but lacks the "continue", so the
\* video is processed as well
LoopCheckNoContinue ==
    /\ pc = "loop"
    /\ i <= Len(video_files)
    /\ check' = is_already_processed(fs, video_files[i])
    /\ skipped_count' =
          IF check'.already_processed /\ ~force THEN skipped_count + 1 ELSE skipped_count
    /\ pc' = "create_dirs"
    /\ UNCHANGED <<vstate, i>>
    /\ UNCHANGED <<fs, dir_exists, has_override, desktop_exists, ffmpeg_version, force,
                   video_files, processed_count, failed_count, result, tool,
                   summary, exit_status, run, prev_force, prev_failed, report,
                   start_fs, discovery_calls, attempted>>

\* lines 159-170: the idempotency check of video i and the skip
LoopCheck ==
    /\ pc = "loop"
    /\ i <= Len(video_files)
    /\ check' = is_already_processed(fs, video_files[i])
    /\ IF check'.already_processed /\ ~force
       THEN /\ skipped_count' = skipped_count + 1
            /\ vstate' = [vstate EXCEPT ![i] = "Skipped"]
            /\ i' = i + 1
            /\ UNCHANGED pc
       ELSE /\ pc' = "create_dirs"
            /\ UNCHANGED <<skipped_count, vstate, i>>
    /\ UNCHANGED <<fs, dir_exists, has_override, desktop_exists, ffmpeg_version, force,
                   video_files, processed_count, failed_count, result, tool,
                   summary, exit_status, run, prev_force, prev_failed, report, start_fs,
                   discovery_calls, attempted>>

\* lines 172-182: both directories are created; an OSError of mkdir is not
\* caught anywhere, so it ends the process with a traceback and status 1
CreateDirs ==
    /\ pc = "create_dirs"
    /\ IF MkdirOk(fs, Stem(video_files[i]))
       THEN /\ fs' = Mkdirs(fs, Stem(video_files[i]))
            /\ vstate' = [vstate EXCEPT ![i] = "DirectoriesCreated"]
            /\ pc' = "extract"
            /\ UNCHANGED exit_status
       ELSE /\ Exit(1)
            /\ UNCHANGED <<fs, vstate>>
    /\ UNCHANGED <<dir_exists, has_override, desktop_exists, ffmpeg_version, force,
                   video_files, i, processed_count, skipped_count, failed_count,
                   check, result, tool, summary, run, prev_force, prev_failed, report, start_fs,
                   discovery_calls, attempted>>

\* lines 184-186 and 91-112: extract_frames is called and starts ffmpeg
StartExtract ==
    /\ pc = "extract"
    /\ vstate' = [vstate EXCEPT ![i] = "Extracting"]
    /\ attempted' = attempted \cup {i}
    /\ pc' = "ffmpeg"
    /\ UNCHANGED <<fs, dir_exists, has_override, desktop_exists, ffmpeg_version, force,
                   video_files, i, processed_count, skipped_count, failed_count,
                   check, result, tool, summary, exit_status, run, prev_force, prev_failed, report,
                   start_fs, discovery_calls>>

\* variant: a failed extraction removes the content of the output directory
ToolReturnCleansUp ==
    /\ pc = "ffmpeg"
    /\ \E outcome \in Outcomes, wrote \in 0 .. MaxFrames :
          /\ tool' = outcome
          /\ fs' = IF outcome \in {"ok", "raises"}
                   THEN Ffmpeg(fs, Stem(video_files[i]), wrote)
                   ELSE [fs EXCEPT !.af_files[Stem(video_files[i])] = {}]
          /\ LET r == extract_frames(fs', video_files[i], outcome)
             IN  IF Raises(r)
                 THEN /\ Exit(1)
                      /\ UNCHANGED <<result, processed_count, failed_count,
                                     vstate, i>>
                 ELSE /\ result' = r
                      /\ IF r.success
                         THEN /\ processed_count' = processed_count + 1
                              /\ vstate' = [vstate EXCEPT ![i] = "Succeeded"]
                              /\ UNCHANGED failed_count
                         ELSE /\ failed_count' = failed_count + 1
                              /\ vstate' = [vstate EXCEPT ![i] = "Failed"]
                              /\ UNCHANGED processed_count
                      /\ i' = i + 1
                      /\ pc' = "loop"
                      /\ UNCHANGED exit_status
    /\ UNCHANGED <<dir_exists, has_override, desktop_exists, ffmpeg_version, force,
                   video_files, skipped_count, check, summary, run,
                   prev_force, prev_failed, report, start_fs, discovery_calls,
                   attempted>>

\* lines 106-125 and 188-196: ffmpeg ends after writing some frames; either
\* extract_frames returns and the loop counts the video, or an exception it
\* does not catch leaves extract_frames, process_videos and main, and the
\* process ends with a traceback and status 1
ToolReturn ==
    /\ pc = "ffmpeg"
    /\ \E outcome \in Outcomes, wrote \in 0 .. MaxFrames :
          /\ tool' = outcome
          /\ fs' = Ffmpeg(fs, Stem(video_files[i]), wrote)
          /\ LET r == extract_frames(fs', video_files[i], outcome)
             IN  IF Raises(r)
                 THEN /\ Exit(1)
                      /\ UNCHANGED <<result, processed_count, failed_count,
                                     vstate, i>>
                 ELSE /\ result' = r
                      /\ IF r.success
                         THEN /\ processed_count' = processed_count + 1
                              /\ vstate' = [vstate EXCEPT ![i] = "Succeeded"]
                              /\ UNCHANGED failed_count
                         ELSE /\ failed_count' = failed_count + 1
                              /\ vstate' = [vstate EXCEPT ![i] = "Failed"]
                              /\ UNCHANGED processed_count
                      /\ i' = i + 1
                      /\ pc' = "loop"
                      /\ UNCHANGED exit_status
    /\ UNCHANGED <<dir_exists, has_override, desktop_exists, ffmpeg_version, force,
                   video_files, skipped_count, check, summary, run,
                   prev_force, prev_failed, report, start_fs, discovery_calls, attempted>>

\* lines 198-206: the summary; process_videos and main return, status 0
Summary ==
    /\ pc = "loop"
    /\ i > Len(video_files)
    /\ summary' = [printed |-> TRUE, processed |-> processed_count,
                   skipped |-> skipped_count, failed |-> failed_count,
                   total |-> Len(video_files)]
    /\ Exit(0)
    /\ UNCHANGED <<fs, dir_exists, has_override, desktop_exists, ffmpeg_version, force,
                   video_files, i, processed_count, skipped_count, failed_count,
                   vstate, check, result, tool, run, prev_force, prev_failed, report, start_fs,
                   discovery_calls, attempted>>

\* the script is invoked again on the directory the run before left;
\* failed is what the new run remembers of the run before
RerunWith(failed) ==
    /\ pc = "exited"
    /\ run < MaxRuns
    /\ run' = run + 1
    /\ prev_force' = force
    /\ prev_failed' = failed
    /\ report' = "none"
    /\ force' \in BOOLEAN
    /\ start_fs' = fs
    /\ pc' = "main"
    /\ video_files' = <<>>
    /\ i' = 0
    /\ processed_count' = 0
    /\ skipped_count' = 0
    /\ failed_count' = 0
    /\ vstate' = <<>>
    /\ check' = NoCheck
    /\ result' = NoResult
    /\ tool' = "none"
    /\ summary' = NoSummary
    /\ exit_status' = -1
    /\ discovery_calls' = 0
    /\ attempted' = {}
    /\ UNCHANGED <<fs, dir_exists, has_override, desktop_exists, ffmpeg_version>>

Rerun == RerunWith({})

\* the videos the current run counted as failed
FailedVideos == {video_files[k] : k \in {j \in 1 .. Len(vstate) : vstate[j] = "Failed"}}

\* the next invocation, with the failures of the run before kept as history
RerunRecording == RerunWith(FailedVideos)

Next ==
    \/ MainResolveDir
    \/ MainCheckFfmpeg
    \/ ProcessVideosStart
    \/ LoopCheck
    \/ CreateDirs
    \/ StartExtract
    \/ ToolReturn
    \/ Summary
    \/ Rerun

Spec == Init /\ [][Next]_vars

\* the runs that get to process_videos: ffmpeg is installed and the videos
\* directory is given
InitHistory == Init /\ has_override /\ desktop_exists /\ ffmpeg_version = "ok"

NextHistory ==
    \/ MainResolveDir
    \/ MainCheckFfmpeg
    \/ ProcessVideosStart
    \/ LoopCheck
    \/ CreateDirs
    \/ StartExtract
    \/ ToolReturn
    \/ Summary
    \/ RerunRecording

\* Spec with the failures of the run before recorded in prev_failed
SpecHistory == InitHistory /\ [][NextHistory]_vars

\* the steps of one invocation of the script
RunStep ==
    \/ MainResolveDir
    \/ MainCheckFfmpeg
    \/ ProcessVideosStart
    \/ LoopCheck
    \/ CreateDirs
    \/ StartExtract
    \/ ToolReturn
    \/ Summary

\* a run that can take a step takes it: the script is sequential and every
\* step it can take returns (the extraction is bounded by the timeout of line
\* 111); the version check has no timeout, and a check that does not return
\* is a state without a step, of which fairness asks nothing. Nothing makes
\* anybody invoke the script again once its process has ended, so the
\* fairness does not cover Rerun
FairSpec == Spec /\ WF_vars(RunStep)

TypeOK ==
    /\ fs \in FsStates
    /\ WellFormed(fs)
    /\ pc \in {"main", "check_ffmpeg", "process_videos", "loop", "create_dirs",
               "extract", "ffmpeg", "exited"}
    /\ run \in 1 .. MaxRuns

(* ---------------------------------------------------------------------- *)
(* Vocabulary of the properties                                            *)
(* ---------------------------------------------------------------------- *)

\* number of discovered videos
N == Len(video_files)

\* <videos_dir>/s/all_frames exists in f and holds at least one frame_*.jpg
HasFrames(f, s) ==
    /\ f.kind[s] = "dir"
    /\ f.af_exists[s]
    /\ \E k \in f.af_files[s] : k >= 1

\* number of frame_*.jpg files of <videos_dir>/s/all_frames in f
FrameCount(f, s) ==
    IF f.kind[s] = "dir" /\ f.af_exists[s]
    THEN Cardinality({k \in f.af_files[s] : k >= 1})
    ELSE 0

\* indexes of the discovered videos that were processed when the run started
ProcessedAtStart == {k \in 1 .. N : HasFrames(start_fs, Stem(video_files[k]))}

Terminal == {"Skipped", "Succeeded", "Failed"}

\* "ffmpeg -version" works, so that check_ffmpeg_installed has to return True
CheckPasses == ffmpeg_version = "ok"

\* the external tool is unavailable: it is not on the PATH or its version
\* command fails, so that check_ffmpeg_installed has to return False
ToolUnavailable == ffmpeg_version = "unavailable"

\* the fail-fast preconditions of main do not hold
PreconditionFails == ToolUnavailable \/ (~has_override /\ ~desktop_exists)

\* main gets to its call of process_videos
ReachesProcessVideos == CheckPasses /\ (has_override \/ desktop_exists)

(* ---------------------------------------------------------------------- *)
(* C1                                                                      *)
(* ---------------------------------------------------------------------- *)

\* C1: a non-forced run over N discovered videos of which M were already
\* processed when it started ends with skipped_count = M and
\* processed_count + failed_count = N - M.
C1_SkipsExactlyProcessed ==
    (summary.printed /\ ~force) =>
        /\ skipped_count = Cardinality(ProcessedAtStart)
        /\ processed_count + failed_count = N - Cardinality(ProcessedAtStart)

(* ---------------------------------------------------------------------- *)
(* C2                                                                      *)
(* ---------------------------------------------------------------------- *)

\* C2 (as claimed): the second of two non-forced runs on the same directory
\* extracts nothing, whatever the first run's outcomes were: processed_count
\* = 0, failed_count = 0 and skipped_count = N.
C2_SecondRunSkipsAll ==
    (run = 2 /\ ~force /\ ~prev_force /\ summary.printed) =>
        /\ summary.processed = 0
        /\ summary.failed = 0
        /\ summary.skipped = N

\* C2 (amended): in the second of two non-forced runs
\*  (a) no directory is created and no extraction is invoked for a video
\*      whose all_frames directory held a frame_*.jpg when the first run ended;
\*  (b) a video is skipped only if its all_frames directory held a
\*      frame_*.jpg when the first run ended, or an extraction invoked earlier
\*      in the second run for a video with the same stem was pointed at that
\*      directory and it holds a frame_*.jpg now;
\*  (c) when the summary is printed, processed_count = 0, failed_count = 0
\*      and skipped_count = N hold exactly if every discovered video's
\*      all_frames directory held a frame_*.jpg when the first run ended.
C2_SecondRunSkipsProcessed ==
    (run = 2 /\ ~force /\ ~prev_force) =>
        /\ \A k \in attempted : ~HasFrames(start_fs, Stem(video_files[k]))
        /\ \A k \in 1 .. Len(vstate) :
              /\ vstate[k] \notin {"Discovered", "Skipped"} =>
                    ~HasFrames(start_fs, Stem(video_files[k]))
              /\ vstate[k] = "Skipped" =>
                    \/ HasFrames(start_fs, Stem(video_files[k]))
                    \/ /\ HasFrames(fs, Stem(video_files[k]))
                       /\ \E j \in attempted :
                             j < k /\ Stem(video_files[j]) = Stem(video_files[k])
        /\ summary.printed =>
              ((summary.processed = 0 /\ summary.failed = 0 /\ summary.skipped = N)
                 <=> ProcessedAtStart = 1 .. N)

\* the second non-forced run finished after skipping one video and
\* extracting another one again
C2_Witness ==
    /\ run = 2 /\ ~force /\ ~prev_force
    /\ summary.printed
    /\ summary.skipped >= 1
    /\ summary.failed >= 1
    /\ \E k \in attempted : start_fs.af_exists[Stem(video_files[k])]

(* ---------------------------------------------------------------------- *)
(* C3                                                                      *)
(* ---------------------------------------------------------------------- *)

\* C3: a run that discovered N videos ends with every video in one of the
\* states Skipped, Succeeded, Failed and with the summary printed.
C3_EveryVideoHandled ==
    (pc = "exited" /\ N > 0) =>
        /\ \A k \in 1 .. N : vstate[k] \in Terminal
        /\ summary.printed

(* ---------------------------------------------------------------------- *)
(* C4                                                                      *)
(* ---------------------------------------------------------------------- *)

\* C4: two distinct discovered videos have different output directories
\* <videos_dir>/<stem>.
C4_DisjointOutputDirs ==
    \A j, k \in 1 .. N :
        j # k => Stem(video_files[j]) # Stem(video_files[k])

(* ---------------------------------------------------------------------- *)
(* C5                                                                      *)
(* ---------------------------------------------------------------------- *)

\* C5: a forced run over N discovered videos invokes extraction for all of
\* them: it ends with skipped_count = 0 and processed_count + failed_count = N.
C5_ForceAttemptsAll ==
    (pc = "exited" /\ force /\ N > 0) =>
        /\ attempted = 1 .. N
        /\ skipped_count = 0
        /\ processed_count + failed_count = N

(* ---------------------------------------------------------------------- *)
(* C6                                                                      *)
(* ---------------------------------------------------------------------- *)

\* the last result of is_already_processed is the one the file system f
\* determines for the video v
CheckMatches(f, v) ==
    /\ check.already_processed <=> HasFrames(f, Stem(v))
    /\ check.existing_frames = FrameCount(f, Stem(v))

\* C6: is_already_processed returns True exactly if <stem>/all_frames exists
\* and holds at least one frame_*.jpg, and the count it returns is the number
\* of these files (0 for a missing directory and for one without frames).
\* The result is compared with the file system right after the call: before
\* the directories of a video that is not skipped are created, and after a
\* video was skipped.
C6_CheckReflectsFileSystem ==
    /\ pc = "create_dirs" => CheckMatches(fs, video_files[i])
    /\ (pc = "loop" /\ i > 1 /\ vstate[i - 1] = "Skipped") =>
            CheckMatches(fs, video_files[i - 1])

\* a video was checked whose all_frames directory exists and holds only a
\* file that is no frame: the check said "not processed", 0 frames
C6_Witness ==
    /\ pc = "create_dirs"
    /\ fs.af_exists[Stem(video_files[i])]
    /\ fs.af_files[Stem(video_files[i])] = {0}
    /\ check = [already_processed |-> FALSE, existing_frames |-> 0]

(* ---------------------------------------------------------------------- *)
(* C7                                                                      *)
(* ---------------------------------------------------------------------- *)

\* entries of the videos directory whose extension is "mp4" in any casing
Mp4Entries ==
    {n \in EntryNames : fs.kind[n] # "none" /\ LowerSeq(Suffix(n)) = pat_mp4}

\* C7: get_video_files returns exactly the entries whose extension equals
\* "mp4" case-insensitively, each once, in ascending order.
C7_DiscoveryCaseInsensitive ==
    discovery_calls > 0 =>
        /\ {video_files[k] : k \in 1 .. N} = Mp4Entries
        /\ N = Cardinality(Mp4Entries)
        /\ \A k \in 1 .. N - 1 : LexLess(video_files[k], video_files[k + 1])

(* ---------------------------------------------------------------------- *)
(* C8                                                                      *)
(* ---------------------------------------------------------------------- *)

\* the step in which an ffmpeg invocation ends with the given outcome
ToolEnds(outcome) == pc = "ffmpeg" /\ pc' = "loop" /\ tool' = outcome

\* the step counts one failure and nothing else
CountsOneFailure ==
    /\ failed_count' = failed_count + 1
    /\ processed_count' = processed_count
    /\ skipped_count' = skipped_count

\* C8: a timeout and a non-zero exit of ffmpeg give different error messages,
\* each adds exactly one to failed_count and nothing to the other counters,
\* and the total of the summary is N.
C8_FailuresClassifiedAndCounted ==
    [][ /\ ToolEnds("timeout") =>
              (result'.error_msg = "FFmpeg timed out" /\ CountsOneFailure)
        /\ ToolEnds("nonzero") =>
              (result'.error_msg = "FFmpeg error" /\ CountsOneFailure)
        /\ summary'.printed => summary'.total = Len(video_files') ]_vars

\* a run in which one invocation failed and a later one timed out
C8_Witness ==
    /\ pc = "loop"
    /\ tool = "timeout"
    /\ result.error_msg = "FFmpeg timed out"
    /\ failed_count = 2
    /\ vstate[i - 1] = "Failed"

(* ---------------------------------------------------------------------- *)
(* C9                                                                      *)
(* ---------------------------------------------------------------------- *)

\* C9: when ffmpeg is unavailable, or no --videos-dir is given and the
\* Desktop is missing, the run never gets to process_videos: no discovery,
\* no directory created, no extraction invoked.
C9_FailFast ==
    PreconditionFails =>
        /\ pc \in {"main", "check_ffmpeg", "exited"}
        /\ discovery_calls = 0
        /\ fs = start_fs
        /\ attempted = {}
        /\ vstate = <<>>

\* a run ended for want of ffmpeg on a directory that holds a video to process
C9_Witness ==
    /\ pc = "exited"
    /\ exit_status = 1
    /\ ffmpeg_version = "unavailable"
    /\ has_override
    /\ dir_exists
    /\ fs.kind[n_a_mp4] = "file"
    /\ fs.kind[n_a] = "none"

(* ---------------------------------------------------------------------- *)
(* C10                                                                     *)
(* ---------------------------------------------------------------------- *)

\* C10: main exits with a non-zero status exactly if ffmpeg is unavailable
\* or the default base directory cannot be located; in every other case,
\* also when videos failed, the status is zero. The tool counts as
\* unavailable whenever its check does not return True.
C10_ExitStatus ==
    pc = "exited" =>
        (exit_status # 0 <=> (~CheckPasses \/ (~has_override /\ ~desktop_exists)))

(* ---------------------------------------------------------------------- *)
(* C11                                                                     *)
(* ---------------------------------------------------------------------- *)

\* the directories of video i cannot be created: its stem is a regular file
MkdirFails == pc = "create_dirs" /\ fs.kind[Stem(video_files[i])] = "file"

\* the tool invocation of video i ends in something else than a return, a
\* non-zero exit or a timeout, e.g. ffmpeg cannot be launched
LaunchFails == pc = "ffmpeg" /\ tool' = "raises"

\* C11: no failure met while one video is handled leaves the loop: the step
\* that handles a video never ends the process, and a failure to create the
\* video's directories or to launch the tool is counted in failed_count and
\* followed by the next video.
C11_FailuresCaught ==
    [][ /\ pc \in {"create_dirs", "extract", "ffmpeg"} => pc' # "exited"
        /\ (MkdirFails \/ LaunchFails) =>
              (failed_count' = failed_count + 1 /\ i' = i + 1 /\ pc' = "loop") ]_vars

(* ---------------------------------------------------------------------- *)
(* C12                                                                     *)
(* ---------------------------------------------------------------------- *)

\* the transitions of the per-video state machine
Transitions ==
    {<<"Discovered", "Skipped">>,
     <<"Discovered", "DirectoriesCreated">>,
     <<"DirectoriesCreated", "Extracting">>,
     <<"Extracting", "Succeeded">>,
     <<"Extracting", "Failed">>}

\* both subdirectories of <videos_dir>/s exist in f
BothDirsExist(f, s) ==
    f.kind[s] = "dir" /\ f.af_exists[s] /\ f.release[s] # "absent"

\* C12: within one run a video only moves Discovered -> Skipped or
\* Discovered -> DirectoriesCreated -> Extracting -> Succeeded or Failed, so
\* the three final states are never left; extraction is invoked for a video
\* only when both of its subdirectories exist, and the step that skips a
\* video creates no directory.
C12_VideoStateMachine ==
    [][ (run' = run /\ vstate # <<>>) =>
          /\ Len(vstate') = Len(vstate)
          /\ \A k \in 1 .. Len(vstate) :
                /\ vstate'[k] = vstate[k] \/ <<vstate[k], vstate'[k]>> \in Transitions
                /\ (vstate[k] # "Extracting" /\ vstate'[k] = "Extracting") =>
                      BothDirsExist(fs, Stem(video_files[k]))
                /\ (vstate[k] # "Skipped" /\ vstate'[k] = "Skipped") => fs' = fs
          /\ \A k \in attempted' \ attempted :
                /\ vstate[k] = "DirectoriesCreated"
                /\ BothDirsExist(fs, Stem(video_files[k])) ]_vars

\* a finished run in which one video succeeded, one was skipped and one failed
C12_Witness ==
    /\ summary.printed
    /\ vstate = <<"Succeeded", "Skipped", "Failed">>

(* ---------------------------------------------------------------------- *)
(* C13                                                                     *)
(* ---------------------------------------------------------------------- *)

\* the extraction of video i - 1 has just succeeded: result is its result
\* and the file system is the one extract_frames returned on (the loop is
\* about to handle the next video, or the summary was printed)
JustSucceeded ==
    /\ pc = "loop" \/ summary.printed
    /\ i > 1
    /\ i - 1 <= Len(vstate)
    /\ vstate[i - 1] = "Succeeded"

\* the output directory of the video whose extraction has just ended
LastStem == Stem(video_files[i - 1])

\* C13 (as claimed): when an extraction succeeds, the reported frame count is
\* the number of frame_*.jpg files of <stem>/all_frames, and
\* <stem>/release_frames exists and is empty, whatever the output tree held.
C13_SuccessOutputEmptyRelease ==
    JustSucceeded =>
        /\ result.success
        /\ result.frame_count = FrameCount(fs, LastStem)
        /\ fs.release[LastStem] = "empty"

\* C13 (amended): when an extraction succeeds, the reported frame count is
\* the number of frame_*.jpg files of <stem>/all_frames, and
\* <stem>/release_frames exists; it is empty if it did not exist or was empty
\* when the run started, and otherwise still holds what it held.
C13_SuccessOutputKeepsRelease ==
    JustSucceeded =>
        /\ result.success
        /\ result.frame_count = FrameCount(fs, LastStem)
        /\ fs.release[LastStem] =
              IF start_fs.release[LastStem] = "absent"
              THEN "empty"
              ELSE start_fs.release[LastStem]

\* a forced run extracted a video again whose release_frames directory held
\* selected frames, next to an all_frames directory created by this run for
\* another video
C13_Witness ==
    /\ JustSucceeded
    /\ force
    /\ start_fs.release[LastStem] = "nonempty"
    /\ fs.release[LastStem] = "nonempty"
    /\ result.frame_count >= 1
    /\ \E s \in StemNames : start_fs.release[s] = "absent" /\ fs.release[s] = "empty"

(* ---------------------------------------------------------------------- *)
(* C14                                                                     *)
(* ---------------------------------------------------------------------- *)

\* video k failed in the run before and its all_frames directory held a
\* frame_*.jpg when the current run started
FailedWithFrames(k) ==
    /\ video_files[k] \in prev_failed
    /\ HasFrames(start_fs, Stem(video_files[k]))

\* C14: a failure cleans nothing up: no step, in particular not the one in
\* which ffmpeg times out or fails, removes a file from an all_frames
\* directory; and a non-forced run never extracts a video again that the run
\* before counted as failed and that has a frame file left: it can only skip
\* it as already processed.
C14_NoCleanupFalsePositive ==
    /\ [][\A s \in StemNames : fs.af_files[s] \subseteq fs'.af_files[s]]_vars
    /\ [](~force =>
            \A k \in 1 .. Len(vstate) :
                FailedWithFrames(k) =>
                    (k \notin attempted /\ vstate[k] \in {"Discovered", "Skipped"}))

\* the false positive: the only video failed in the first, non-forced run
\* (so the frames it has were written by the failed invocation), and the
\* second non-forced run, on the file system the first one left, reported it
\* as already processed and counted it as skipped
C14_Witness ==
    /\ run = 2 /\ ~force /\ ~prev_force
    /\ N = 1
    /\ prev_failed = {video_files[1]}
    /\ vstate = <<"Skipped">>
    /\ check.already_processed
    /\ summary.printed /\ summary.skipped = 1
    /\ fs = start_fs

(* ---------------------------------------------------------------------- *)
(* C15                                                                     *)
(* ---------------------------------------------------------------------- *)

\* the videos directory is missing or holds no entry ending in .mp4 or .MP4
NothingToDo ==
    \/ ~dir_exists
    \/ \A n \in EntryNames :
          fs.kind[n] # "none" => Suffix(n) \notin {pat_mp4, pat_MP4}

\* C15: when process_videos is called on a videos directory that is missing
\* or holds no matching video, it reports that, creates no directory, invokes
\* no extraction and returns, and the run ends with status 0.
C15_NothingToDoEndsCleanly ==
    (NothingToDo /\ ReachesProcessVideos) =>
        /\ pc \in {"main", "check_ffmpeg", "process_videos", "exited"}
        /\ fs = start_fs
        /\ attempted = {}
        /\ vstate = <<>>
        /\ pc = "exited" =>
              /\ exit_status = 0
              /\ report = IF dir_exists THEN "No mp4 video files found"
                                        ELSE "Videos directory not found"

\* a run ended on a directory that holds files but no video the discovery
\* matches, and has an output tree of an earlier run
C15_Witness ==
    /\ pc = "exited"
    /\ exit_status = 0
    /\ report = "No mp4 video files found"
    /\ fs.kind[n_n_txt] = "file"
    /\ fs.kind[n_b_Mp4] = "file"
    /\ fs.kind[n_a] = "dir"

(* ---------------------------------------------------------------------- *)
(* C16                                                                     *)
(* ---------------------------------------------------------------------- *)

\* the videos counted so far
Counted == processed_count + skipped_count + failed_count

\* C16: the three counters start at 0 and never decrease within a run; a
\* step that ends the handling of a video adds exactly one to exactly one of
\* them and no other step changes them, so that while video i is handled
\* i - 1 videos are counted; the counts of the printed summary add up to its
\* total, the number of discovered videos.
C16_CounterInvariant ==
    /\ [](/\ pc \in {"main", "check_ffmpeg", "process_videos"} => Counted = 0
          /\ processed_count >= 0 /\ skipped_count >= 0 /\ failed_count >= 0
          /\ pc \in {"loop", "create_dirs", "extract", "ffmpeg"} => Counted = i - 1
          /\ summary.printed =>
                /\ summary.processed + summary.skipped + summary.failed = summary.total
                /\ summary.total = N)
    /\ [][ run' = run =>
              /\ processed_count' - processed_count \in {0, 1}
              /\ skipped_count' - skipped_count \in {0, 1}
              /\ failed_count' - failed_count \in {0, 1}
              /\ Counted' - Counted \in {0, 1}
              /\ Counted' = Counted + 1 <=>
                    (pc \in {"loop", "ffmpeg"} /\ i' = i + 1) ]_vars

\* a summary in which each of the three counters is 1
C16_Witness ==
    /\ summary.printed
    /\ summary.processed = 1
    /\ summary.skipped = 1
    /\ summary.failed = 1
    /\ summary.total = 3

====
